---- MODULE Spec2Model ----
(***************************************************************************)
(* A model of dbt-superset-lineage's push-descriptions command:            *)
(*   src/dbt_superset_lineage/utils.py              the two indices        *)
(*   src/dbt_superset_lineage/push_descriptions.py  translate, merge,      *)
(*                                                   gate, create, main     *)
(*                                                                         *)
(* Encoding of Python values.                                              *)
(*   text        a sequence of tokens (strings): words, blanks, markup     *)
(*   None        Python's None has one sentinel per type it stands in for: *)
(*               NoneText (a description), NoneStr (an expression, a       *)
(*               database name), NoneId (a database id; ids are >= 1)      *)
(*   dict        a function whose DOMAIN is the key set; where the code    *)
(*               iterates a dict, a sequence of entries in dict order      *)
(***************************************************************************)
EXTENDS Integers, Sequences, FiniteSets, TLC

NoneText == <<"<None>">>
NoneStr == "<None>"
NoneId == 0

(***************************************************************************)
(* Bounds of the model.                                                    *)
(***************************************************************************)
\* successive runs of main over the same manifest and the catalog as left
MaxRuns == 2
\* requests that the transport fails (HTTPError), over a whole behaviour
MaxFaults == 1
\* the largest page the catalog's listing endpoint hands out
ServerPageCap == 2

\* utils.py:19, the page size the client asks for
page_size == 100

Min(a, b) == IF a <= b THEN a ELSE b

RECURSIVE ToSet(_)
ToSet(s) == IF s = <<>> THEN {} ELSE {Head(s)} \cup ToSet(Tail(s))

(***************************************************************************)
(* convert_markdown_to_plain_text, push_descriptions.py:35-60.             *)
(***************************************************************************)
\* the mis-rendered arrow glyph of line 57, as one token
ArrowGlyph == "a^>"

\* the backtick that delimits an inline code span, as one token
Backtick == "~"

Whitespace == {" ", "\n"}
Tags == {"<p>", "</p>", "<code>", "</code>", "<pre>", "</pre>"}

\* markdown(md_string), the renderer called at line 43: a paragraph, in which
\* a pair of backticks becomes an inline code element; an indented block
\* (token "    " up to the end of its line) becomes <pre><code>..\n</code></pre>.
RECURSIVE RenderInline(_, _)
RenderInline(md, open) ==
    IF md = <<>> THEN IF open THEN <<"</code>">> ELSE <<>>
    ELSE IF Head(md) = Backtick
         THEN <<IF open THEN "</code>" ELSE "<code>">> \o RenderInline(Tail(md), ~open)
         ELSE <<Head(md)>> \o RenderInline(Tail(md), open)

RECURSIVE UpToNewline(_)
UpToNewline(md) ==
    IF md = <<>> \/ Head(md) = "\n" THEN <<>> ELSE <<Head(md)>> \o UpToNewline(Tail(md))

RECURSIVE AfterNewline(_)
AfterNewline(md) ==
    IF md = <<>> THEN <<>>
    ELSE IF Head(md) = "\n" THEN Tail(md) ELSE AfterNewline(Tail(md))

RECURSIVE markdown(_)
markdown(md) ==
    IF md = <<>> THEN <<>>
    ELSE IF Head(md) = "    "
         THEN <<"<pre>", "<code>">> \o UpToNewline(Tail(md)) \o <<"\n", "</code>", "</pre>">>
                 \o (IF AfterNewline(md) = <<>> THEN <<>> ELSE <<"\n">> \o markdown(AfterNewline(md)))
         ELSE <<"<p>">> \o RenderInline(md, FALSE) \o <<"</p>">>

\* index of the first `close` in html at or after position i on the same line
\* (the dot of the pattern does not match a newline), or 0
RECURSIVE FindClose(_, _, _)
FindClose(html, close, i) ==
    IF i > Len(html) \/ html[i] = "\n" THEN 0
    ELSE IF html[i] = close THEN i ELSE FindClose(html, close, i + 1)

\* re.sub(open (.*?) close, one space, html)
RECURSIVE ReSubElement(_, _, _)
ReSubElement(html, open, close) ==
    IF html = <<>> THEN <<>>
    ELSE IF Head(html) = open /\ FindClose(html, close, 2) > 0
         THEN <<" ">> \o ReSubElement(SubSeq(html, FindClose(html, close, 2) + 1, Len(html)), open, close)
         ELSE <<Head(html)>> \o ReSubElement(Tail(html), open, close)

\* the join of soup.findAll(text=True): the text nodes, every tag dropped
RECURSIVE SoupText(_)
SoupText(html) ==
    IF html = <<>> THEN <<>>
    ELSE IF Head(html) \in Tags THEN SoupText(Tail(html))
         ELSE <<Head(html)>> \o SoupText(Tail(html))

\* re.sub of every whitespace run by one space
RECURSIVE OneLine(_)
OneLine(text) ==
    IF text = <<>> THEN <<>>
    ELSE IF Head(text) \in Whitespace
         THEN IF Len(text) > 1 /\ text[2] \in Whitespace
              THEN OneLine(Tail(text))
              ELSE <<" ">> \o OneLine(Tail(text))
         ELSE <<Head(text)>> \o OneLine(Tail(text))

\* re.sub(old, new, single_line) on a one-token pattern
ReSubToken(text, old, new) ==
    [i \in 1..Len(text) |-> IF text[i] = old THEN new ELSE text[i]]

convert_markdown_to_plain_text(md_string) ==
    LET html0 == markdown(md_string)
        html1 == ReSubElement(html0, "<pre>", "</pre>")
        html2 == ReSubElement(html1, "<code>", "</code >")
        text == SoupText(html2)
        single_line == OneLine(text)
        fixed == ReSubToken(single_line, ArrowGlyph, "->")
    IN  ReSubToken(fixed, "<null>", "\"null\"")

(***************************************************************************)
(* The manifest index, utils.py:63-85.  A manifest holds two dicts, nodes  *)
(* and sources, each a sequence of entries [key, val] in dict order; key   *)
(* is the long table key split at its dots, val the table.  The index is   *)
(* an ordered dict too: a sequence of [key, val] with key the short key.   *)
(***************************************************************************)
InDict(key, dict) == \E j \in 1..Len(dict) : dict[j].key = key

Lookup(dict, key) == dict[CHOOSE j \in 1..Len(dict) : dict[j].key = key].val

DictKeys(dict) == {dict[j].key : j \in 1..Len(dict)}

\* utils.py:69 without the test of the kind
IsModel_any(table_key_long) == TRUE

\* utils.py:69: the long key begins with model
IsModel(table_key_long) == table_key_long[1] \in {"model"}

\* utils.py:74 without the test of the database
InDatabase_any(table, dbt_db_name) == TRUE

\* utils.py:74
InDatabase(table, dbt_db_name) == dbt_db_name = NoneStr \/ table.database = dbt_db_name

\* the loop body of lines 67-82 over one manifest subset; acc is
\* [err, tables], err the assertion that failed so far
RECURSIVE ScanSubset(_, _, _)
ScanSubset(manifest_subset, dbt_db_name, acc) ==
    IF manifest_subset = <<>> \/ acc.err # "" THEN acc
    ELSE LET table_key_long == Head(manifest_subset).key
             table == Head(manifest_subset).val
             table_key_short == table.schema_ \o "." \o table.name
         IN  IF ~IsModel(table_key_long)
             THEN ScanSubset(Tail(manifest_subset), dbt_db_name, acc)
             ELSE IF InDatabase(table, dbt_db_name)
                  THEN IF InDict(table_key_short, acc.tables)
                       THEN [acc EXCEPT !.err = "DuplicateKey"]
                       ELSE ScanSubset(Tail(manifest_subset), dbt_db_name,
                                [acc EXCEPT !.tables =
                                    Append(@, [key |-> table_key_short, val |-> table])])
                  ELSE ScanSubset(Tail(manifest_subset), dbt_db_name, acc)

\* [err, tables]: err is "", "DuplicateKey" (the assertion of line 76) or
\* "EmptyManifest" (the assertion of line 84)
get_tables_from_dbt(dbt_manifest, dbt_db_name) ==
    LET nodes == ScanSubset(dbt_manifest.nodes, dbt_db_name, [err |-> "", tables |-> <<>>])
        both == ScanSubset(dbt_manifest.sources, dbt_db_name, nodes)
    IN  IF both.err # "" THEN both
        ELSE IF both.tables = <<>> THEN [both EXCEPT !.err = "EmptyManifest"]
        ELSE both

(***************************************************************************)
(* The catalog index, utils.py:7-60: one page of the listing.              *)
(***************************************************************************)
\* utils.py:45 with the assertion left out
IsDuplicate_never(dataset_key, datasets_keys) == FALSE

\* utils.py:45: the key was listed before
IsDuplicate(dataset_key, datasets_keys) == dataset_key \in datasets_keys

\* the loop body of lines 26-52 over one page; acc is [err, datasets,
\* datasets_keys]
RECURSIVE ScanPage(_, _, _)
ScanPage(result, superset_db_id, acc) ==
    IF result = <<>> \/ acc.err # "" THEN acc
    ELSE LET r == Head(result)
             kind == r.kind
             database_id == r.database.id
             dataset_key == r.schema \o "." \o r.table_name
             dataset_dict == [id |-> r.id, key |-> dataset_key]
         IN  IF kind = "physical" /\ (superset_db_id = NoneId \/ database_id = superset_db_id)
             THEN IF IsDuplicate(dataset_key, acc.datasets_keys)
                  THEN [acc EXCEPT !.err = "DuplicateKey"]
                  ELSE ScanPage(Tail(result), superset_db_id,
                           [acc EXCEPT !.datasets_keys = @ \cup {dataset_key},
                                       !.datasets = Append(@, dataset_dict)])
             ELSE ScanPage(Tail(result), superset_db_id, acc)

(***************************************************************************)
(* Merge and gate, push_descriptions.py:63-149.                            *)
(***************************************************************************)
\* markdown(None) at line 43 raises (it calls a string method of its
\* argument), and the error is no HTTPError
ConvertRaises(md_string) == md_string = NoneText

\* the columns and the description the manifest has for the dataset's key,
\* lines 66-75
DbtColumns(dataset, tables) ==
    IF InDict(dataset.key, tables) THEN Lookup(tables, dataset.key).columns ELSE <<>>

DbtDescription(dataset, tables) ==
    IF InDict(dataset.key, tables) THEN Lookup(tables, dataset.key).description ELSE NoneText


\* lines 91-94 without the test of the expression
Overridden_any_expression(sst_column, dbt_columns) ==
    sst_column.column_name \in DOMAIN dbt_columns

\* the test of lines 91-94
Overridden(sst_column, dbt_columns) ==
    /\ sst_column.column_name \in DOMAIN dbt_columns
    /\ (sst_column.expression = NoneStr \/ sst_column.expression = "")

\* lines 85-99 with the id of line 87 left out
MergeColumn_no_id(sst_column, dbt_columns) ==
    [column_name |-> sst_column.column_name,
     id |-> NoneId,
     description |-> sst_column.description]

\* lines 85-99, one column of columns_new
MergeColumn(sst_column, dbt_columns) ==
    [column_name |-> sst_column.column_name,
     id |-> sst_column.id,
     description |->
        IF Overridden(sst_column, dbt_columns)
        THEN convert_markdown_to_plain_text(dbt_columns[sst_column.column_name].description)
        ELSE sst_column.description]

\* whether merge_columns_info raises: line 96 hands a None to the converter
\* (line 106 keeps a None description of the table away from it)
MergeRaises(dataset, tables) ==
    \E j \in 1..Len(dataset.columns) :
        /\ Overridden(dataset.columns[j], DbtColumns(dataset, tables))
        /\ ConvertRaises(DbtColumns(dataset, tables)[dataset.columns[j].column_name].description)


\* lines 105-109 without the translation
DescriptionNew_untranslated(sst_description, dbt_description) ==
    IF dbt_description = NoneText THEN sst_description ELSE dbt_description

\* lines 105-109
DescriptionNew(sst_description, dbt_description) ==
    IF dbt_description = NoneText THEN sst_description
    ELSE convert_markdown_to_plain_text(dbt_description)


\* line 112 left out
OwnersNew_dropped(sst_owners) == <<>>

\* line 112
OwnersNew(sst_owners) == [j \in 1..Len(sst_owners) |-> sst_owners[j].id]

\* the dataset with columns_new, description_new and owners_new added
merge_columns_info(dataset, tables) ==
    [id |-> dataset.id, key |-> dataset.key,
     columns |-> dataset.columns,
     description |-> dataset.description,
     owners |-> dataset.owners,
     columns_new |-> [j \in 1..Len(dataset.columns) |->
                        MergeColumn(dataset.columns[j], DbtColumns(dataset, tables))],
     description_new |-> DescriptionNew(dataset.description, DbtDescription(dataset, tables)),
     owners_new |-> OwnersNew(dataset.owners)]

\* sorted(lst, key=id): a stable insertion sort
RECURSIVE InsertById(_, _)
InsertById(c, sorted) ==
    IF sorted = <<>> THEN <<c>>
    ELSE IF c.id < Head(sorted).id THEN <<c>> \o sorted
         ELSE <<Head(sorted)>> \o InsertById(c, Tail(sorted))

RECURSIVE SortedById(_)
SortedById(lst) ==
    IF lst = <<>> THEN <<>>
    ELSE InsertById(lst[Len(lst)], SortedById(SubSeq(lst, 1, Len(lst) - 1)))


\* line 118 with one side left unsorted
check_columns_equal_unsorted(lst1, lst2) == lst1 = SortedById(lst2)

\* line 118 comparing the lists as they come
check_columns_equal_positional(lst1, lst2) == lst1 = lst2

\* line 118 comparing the ids alone
check_columns_equal_ids(lst1, lst2) ==
    [j \in 1..Len(lst1) |-> SortedById(lst1)[j].id] = [j \in 1..Len(lst2) |-> SortedById(lst2)[j].id]

\* line 118
check_columns_equal(lst1, lst2) == SortedById(lst1) = SortedById(lst2)

\* lines 137-141
ColumnsOld(dataset) ==
    [j \in 1..Len(dataset.columns) |->
        [column_name |-> dataset.columns[j].column_name,
         id |-> dataset.columns[j].id,
         description |-> dataset.columns[j].description]]

\* the condition of lines 143-144
ShouldWrite(dataset) ==
    \/ dataset.description_new # dataset.description
    \/ ~check_columns_equal(dataset.columns_new, ColumnsOld(dataset))

\* line 145
Payload(dataset) ==
    [description |-> dataset.description_new,
     columns |-> dataset.columns_new,
     owners |-> dataset.owners_new]

(***************************************************************************)
(* The catalog behind superset.request: a sequence of datasets in listing  *)
(* order.  What each endpoint answers and changes is the interface the     *)
(* client is written against.                                              *)
(***************************************************************************)
Column(id, name, description, expression) ==
    [id |-> id, column_name |-> name, description |-> description, expression |-> expression]

\* GET /dataset/ with page and page_size (utils.py:16-22): one page
ServerPage(cat, page) ==
    LET sz == Min(page_size, ServerPageCap)
        items == SubSeq(cat, page * sz + 1, Min((page + 1) * sz, Len(cat)))
    IN  [j \in 1..Len(items) |->
            [id |-> items[j].id, kind |-> items[j].kind, database |-> items[j].database,
             table_name |-> items[j].table_name, schema |-> items[j].schema]]

Position(cat, id) == CHOOSE j \in 1..Len(cat) : cat[j].id = id

\* GET /dataset/{id} (push_descriptions.py:25-26): the result
ServerDetail(cat, id) ==
    [columns |-> cat[Position(cat, id)].columns,
     description |-> cat[Position(cat, id)].description,
     owners |-> cat[Position(cat, id)].owners]

\* the description a payload gives the column with this id, or the one it has
PayloadDescription(column, columns) ==
    IF \E j \in 1..Len(columns) : columns[j].id = column.id
    THEN columns[CHOOSE j \in 1..Len(columns) : columns[j].id = column.id].description
    ELSE column.description

\* PUT /dataset/{id}?override_columns=false (push_descriptions.py:146)
ServerUpdate(cat, id, payload) ==
    LET old == cat[Position(cat, id)]
    IN  [cat EXCEPT ![Position(cat, id)] =
            [old EXCEPT
                !.description = payload.description,
                !.owners = [j \in 1..Len(payload.owners) |-> [id |-> payload.owners[j]]],
                !.columns = [j \in 1..Len(old.columns) |->
                    Column(old.columns[j].id, old.columns[j].column_name,
                           PayloadDescription(old.columns[j], payload.columns),
                           old.columns[j].expression)]]]

RECURSIVE MaxId(_)
MaxId(cat) == IF cat = <<>> THEN 0
              ELSE IF Head(cat).id > MaxId(Tail(cat)) THEN Head(cat).id ELSE MaxId(Tail(cat))

Exists(cat, database_id, schema, table_name) ==
    \E j \in 1..Len(cat) : /\ cat[j].kind = "physical"
                           /\ cat[j].database.id = database_id
                           /\ cat[j].schema = schema
                           /\ cat[j].table_name = table_name

\* POST /dataset/get_or_create (push_descriptions.py:158-162): a new physical
\* dataset with the table's introspected column, unless it is there
ServerGetOrCreate(cat, database_id, schema, table_name) ==
    IF Exists(cat, database_id, schema, table_name) THEN cat
    ELSE Append(cat,
            [id |-> MaxId(cat) + 1, kind |-> "physical", database |-> [id |-> database_id],
             table_name |-> table_name, schema |-> schema,
             description |-> NoneText, owners |-> <<>>,
             columns |-> <<[id |-> 10 * (MaxId(cat) + 1), column_name |-> "total",
                            description |-> NoneText, expression |-> NoneStr]>>])

(***************************************************************************)
(* The inputs a behaviour starts from.                                     *)
(***************************************************************************)
Table(schema, name, database, description, columns) ==
    [schema_ |-> schema, name |-> name, database |-> database,
     description |-> description, columns |-> columns]

NoColumns == [n \in {} |-> [description |-> <<>>]]

TableDescs == {NoneText, <<"Orders", "\n", "placed">>}
ColumnDescs == {NoneText, <<>>, <<"Order", "\n", "total">>}
CatalogDescs == {NoneText, <<"Orders", " ", "placed">>}
CatalogColumnDescs == {NoneText, <<>>, <<"Order", " ", "total">>}
Expressions == {NoneStr, "", "SUM(x)"}
OwnerLists == {<<>>, <<[id |-> 8], [id |-> 7]>>}

OrdersNode(d, c) ==
    [key |-> <<"model", "shop", "orders">>,
     val |-> Table("sales", "orders", "db1", d, "total" :> [description |-> c])]
OrdersNodeDb2 ==
    [key |-> <<"model", "crm", "orders">>,
     val |-> Table("sales", "orders", "db2", <<"Orders">>, NoColumns)]
ItemsNode ==
    [key |-> <<"model", "shop", "items">>,
     val |-> Table("sales", "items", "db1", <<"Items">>,
                   "total" :> [description |-> <<"Item", " ", "total">>]
                       @@ "price" :> [description |-> <<"Price">>])]
OrdersSeed ==
    [key |-> <<"seed", "shop", "orders">>,
     val |-> Table("sales", "orders", "db1", <<"Seed">>, NoColumns)]
OrdersSource ==
    [key |-> <<"source", "shop", "sales", "orders">>,
     val |-> Table("sales", "orders", "db1", <<"Source">>, NoColumns)]

Dataset(id, kind, database_id, schema, name, description, owners, columns) ==
    [id |-> id, kind |-> kind, database |-> [id |-> database_id],
     table_name |-> name, schema |-> schema,
     description |-> description, owners |-> owners, columns |-> columns]

MarginColumn == Column(41, "margin", <<"old">>, "a - b")

OrdersDataset(d, o, cols) == Dataset(1, "physical", 1, "sales", "orders", d, o, cols)
ItemsDataset ==
    Dataset(2, "physical", 1, "sales", "items", <<"Items">>, <<[id |-> 7]>>,
            <<Column(51, "total", <<>>, ""), Column(50, "sku", <<"Stock", " ", "unit">>, NoneStr)>>)
OrdersView == Dataset(3, "virtual", 1, "sales", "orders", <<"View">>, <<>>, <<>>)
OrdersDatasetDb2 == Dataset(4, "physical", 2, "sales", "orders", NoneText, <<>>, <<>>)
StockDataset == Dataset(5, "physical", 1, "sales", "stock", <<"Stock">>, <<>>, <<>>)

\* the subsequences of a sequence, its order kept
RECURSIVE SubSeqs(_)
SubSeqs(s) ==
    IF s = <<>> THEN {<<>>}
    ELSE LET rest == SubSeqs(Tail(s))
         IN  rest \cup {<<Head(s)>> \o t : t \in rest}

DefaultManifest ==
    [nodes |-> <<OrdersNode(<<"Orders", "\n", "placed">>, <<"Order", "\n", "total">>), ItemsNode>>,
     sources |-> <<>>]
DefaultCatalog ==
    <<OrdersDataset(NoneText, <<[id |-> 7]>>, <<Column(42, "total", <<>>, NoneStr)>>), ItemsDataset>>

Args(manifest, dbt_db_name, superset_db_id, refresh, create, token) ==
    [manifest |-> manifest, dbt_db_name |-> dbt_db_name, superset_db_id |-> superset_db_id,
     superset_refresh_columns |-> refresh, create_dataset_if_not_exists |-> create,
     has_token |-> token]

\* descriptions, expressions and owners vary; every description is pushed
MergeInputs ==
    {[args |-> Args([nodes |-> <<OrdersNode(d, c), ItemsNode>>, sources |-> <<>>],
                    NoneStr, NoneId, FALSE, FALSE, TRUE),
      catalog |-> <<OrdersDataset(sd, o, cols), ItemsDataset>>] :
        d \in TableDescs, c \in ColumnDescs, sd \in CatalogDescs, o \in OwnerLists,
        cols \in {<<Column(42, "total", cd, e)>> : cd \in CatalogColumnDescs, e \in Expressions}
                 \cup {<<Column(42, "total", cd, e), MarginColumn>> :
                            cd \in CatalogColumnDescs, e \in Expressions}}

\* the manifest varies: other kinds, sources, the same table in two databases
ManifestInputs ==
    {[args |-> Args([nodes |-> n, sources |-> src], db, NoneId, FALSE, FALSE, TRUE),
      catalog |-> DefaultCatalog] :
        n \in SubSeqs(<<OrdersNode(<<"Orders">>, <<>>), OrdersNodeDb2, ItemsNode, OrdersSeed>>),
        src \in {<<>>, <<OrdersSource>>},
        db \in {NoneStr, "db1", "db2", "db3"}}

\* the listing varies: virtual datasets, other databases, unmatched tables
CatalogInputs ==
    {[args |-> Args(DefaultManifest, NoneStr, id, FALSE, FALSE, TRUE), catalog |-> cat] :
        cat \in SubSeqs(<<DefaultCatalog[1], OrdersView, OrdersDatasetDb2, ItemsDataset, StockDataset>>),
        id \in {NoneId, 1, 2}}

\* missing datasets are created first, columns are refreshed
CreateInputs ==
    {[args |-> Args(DefaultManifest, NoneStr, id, refresh, create, TRUE), catalog |-> cat] :
        cat \in {<<>>, <<OrdersView>>, <<DefaultCatalog[1]>>, DefaultCatalog},
        id \in {NoneId, 1}, refresh \in BOOLEAN, create \in BOOLEAN}

\* the listing reports one dataset twice, the second time on a later page
RelistedInputs ==
    {[args |-> Args(DefaultManifest, NoneStr, id, refresh, FALSE, TRUE),
      catalog |-> DefaultCatalog \o <<DefaultCatalog[1]>>] :
        id \in {NoneId, 1}, refresh \in BOOLEAN}

\* manifest descriptions written in markdown: an inline code span, an indented
\* code block, the glyph and the null marker of lines 57-58
MarkdownDocs ==
    {<<"Net", " ", Backtick, "x", Backtick>>,
     <<"    ", "y", "\n", "Net">>,
     <<"Net", " ", ArrowGlyph, " ", "<null>">>}

MarkdownInputs ==
    {[args |-> Args([nodes |-> <<OrdersNode(d, c)>>, sources |-> <<>>],
                    NoneStr, NoneId, FALSE, FALSE, TRUE),
      catalog |-> <<OrdersDataset(NoneText, <<>>, <<Column(42, "total", <<>>, NoneStr)>>)>>] :
        d \in MarkdownDocs, c \in MarkdownDocs}

\* neither an access token nor a refresh token
TokenInputs ==
    {[args |-> Args(DefaultManifest, NoneStr, NoneId, FALSE, FALSE, FALSE),
      catalog |-> DefaultCatalog]}

Inputs ==
    MergeInputs \cup ManifestInputs \cup CatalogInputs \cup CreateInputs \cup MarkdownInputs
        \cup RelistedInputs
        \cup TokenInputs

(***************************************************************************)
(* The state: main's arguments, the catalog, and main's position and       *)
(* locals (push_descriptions.py:189-230).                                  *)
(***************************************************************************)
VARIABLES
    args,           \* main's arguments; has_token: one of the two tokens is given
    catalog,        \* the catalog's datasets, in listing order
    run,            \* which run of main this is
    pc,             \* where main is
    error,          \* the exception that ended the run, or the empty string
    dbt_tables,     \* the manifest index
    caller,         \* who called get_datasets_from_superset: create or main
    page_number,    \* get_datasets_from_superset's locals
    datasets,
    datasets_keys,
    warned,         \* the callers whose listing logged the warning of utils.py:58
    threads,        \* create_dataset_threads: [dbt_table, st, exc]
    k,              \* the thread main starts or joins next
    filtered,       \* sst_datasets_dbt_filtered
    i,              \* the loop index of line 216, from 1
    sst_dataset,    \* the dataset of this iteration, as the steps enrich it
    calls,          \* the requests of this run, in order: [op, arg, ok, payload, result]
    logged,         \* the dataset ids of the errors logged at line 227
    faults,         \* the requests failed so far
    prev            \* of the run before: [clean, updated]

vars == <<args, catalog, run, pc, error, dbt_tables, caller, page_number, datasets,
          datasets_keys, warned, threads, k, filtered, i, sst_dataset, calls, logged,
          faults, prev>>

NoDataset == [id |-> 0, key |-> ""]
NoPayload == [description |-> <<>>, columns |-> <<>>, owners |-> <<>>]
NoResult == [columns |-> <<>>, description |-> <<>>, owners |-> <<>>]

Call(op, arg, ok, payload, result) ==
    [op |-> op, arg |-> arg, ok |-> ok, payload |-> payload, result |-> result]

\* main's locals before line 194
Fresh ==
    /\ pc = "start" /\ error = "" /\ dbt_tables = <<>> /\ caller = ""
    /\ page_number = 0 /\ datasets = <<>> /\ datasets_keys = {} /\ warned = {}
    /\ threads = <<>> /\ k = 0 /\ filtered = <<>> /\ i = 0 /\ sst_dataset = NoDataset
    /\ calls = <<>> /\ logged = <<>>

Init ==
    /\ \E inp \in Inputs : args = inp.args /\ catalog = inp.catalog
    /\ run = 1 /\ faults = 0
    /\ prev = [clean |-> FALSE, updated |-> {}]
    /\ Fresh

\* the exception is noted and main goes on to the listing
Crash_goes_on(e) == pc' = "list" /\ error' = e

\* an exception nothing catches ends the run
Crash(e) == pc' = "crashed" /\ error' = e

\* lines 194-197
CheckToken ==
    /\ pc = "start"
    /\ IF args.has_token THEN pc' = "tables" /\ error' = error
       ELSE Crash("MissingStartupCredential")
    /\ UNCHANGED <<args, catalog, run, dbt_tables, caller, page_number, datasets,
                   datasets_keys, warned, threads, k, filtered, i, sst_dataset, calls,
                   logged, faults, prev>>

\* lines 205-211: the manifest index, then the first listing
GetTables ==
    /\ pc = "tables"
    /\ LET built == get_tables_from_dbt(args.manifest, args.dbt_db_name)
       IN  IF built.err # ""
           THEN Crash(built.err) /\ UNCHANGED <<dbt_tables, caller>>
           ELSE /\ dbt_tables' = built.tables
                /\ pc' = "list" /\ error' = error
                /\ caller' = IF args.create_dataset_if_not_exists THEN "create" ELSE "main"
    /\ UNCHANGED <<args, catalog, run, page_number, datasets, datasets_keys, warned,
                   threads, k, filtered, i, sst_dataset, calls, logged, faults, prev>>


\* utils.py:53 skipping a page
NextPageNumber_skip(p) == p + 2

\* utils.py:53
NextPageNumber(p) == p + 1

\* lines 172-174 without the test of the key: a thread for every manifest table
NewThreads_every_table(sst_datasets) ==
    [j \in 1..Len(dbt_tables) |-> [dbt_table |-> dbt_tables[j].val, st |-> "new", exc |-> ""]]

\* lines 171-179: a thread for each manifest table the listing lacks
NewThreads(sst_datasets) ==
    LET missing == SelectSeq(dbt_tables,
                       LAMBDA e : e.key \notin {sst_datasets[j].key : j \in 1..Len(sst_datasets)})
    IN  [j \in 1..Len(missing) |-> [dbt_table |-> missing[j].val, st |-> "new", exc |-> ""]]

\* line 213 without the test of the key
InManifest_any(d, tables) == TRUE

\* line 213: the dataset has a table of its key in the manifest index
InManifest(d, tables) == InDict(d.key, tables)

\* line 213 with the matched datasets taken from the last to the first
Filtered_reversed(sst_datasets, tables) ==
    LET kept == SelectSeq(sst_datasets, LAMBDA d : InManifest(d, tables))
    IN  [j \in 1..Len(kept) |-> kept[Len(kept) + 1 - j]]

\* line 213: sst_datasets_dbt_filtered, in the order of the listing
Filtered(sst_datasets, tables) == SelectSeq(sst_datasets, LAMBDA d : InManifest(d, tables))

\* utils.py:57 with the test left out
NoDatasetsFound_never(sst_datasets) == FALSE

\* utils.py:57-58: the listing found nothing
NoDatasetsFound(sst_datasets) == sst_datasets = <<>>

\* utils.py:13-60, one turn of the loop: the page is fetched and scanned; an
\* empty page ends the listing and the caller goes on (push_descriptions.py
\* 170-179 or 213-214)
ListPage ==
    /\ pc = "list"
    /\ LET result == ServerPage(catalog, page_number)
           scan == ScanPage(result, args.superset_db_id,
                       [err |-> "", datasets |-> datasets, datasets_keys |-> datasets_keys])
       IN  /\ calls' = Append(calls, Call("List", page_number, TRUE, NoPayload, NoResult))
           /\ IF result # <<>>
              THEN /\ IF scan.err # ""
                      THEN Crash(scan.err) /\ UNCHANGED <<page_number, datasets, datasets_keys>>
                      ELSE /\ datasets' = scan.datasets
                           /\ datasets_keys' = scan.datasets_keys
                           /\ page_number' = NextPageNumber(page_number)
                           /\ UNCHANGED <<pc, error>>
                   /\ UNCHANGED <<warned, threads, k, filtered, i>>
              ELSE /\ warned' = IF NoDatasetsFound(datasets) THEN warned \cup {caller} ELSE warned
                   /\ IF caller = "create"
                      THEN /\ threads' = NewThreads(datasets)
                           /\ k' = 1
                           /\ pc' = "start_threads"
                           /\ UNCHANGED <<filtered, i>>
                      ELSE /\ filtered' = Filtered(datasets, dbt_tables)
                           /\ i' = 1
                           /\ pc' = "loop"
                           /\ UNCHANGED <<threads, k>>
                   /\ UNCHANGED <<error, page_number, datasets, datasets_keys>>
    /\ UNCHANGED <<args, catalog, run, dbt_tables, caller, sst_dataset, logged, faults, prev>>

\* the listing request raises HTTPError: nothing in main catches it there
ListPageFails ==
    /\ pc = "list"
    /\ faults < MaxFaults
    /\ faults' = faults + 1
    /\ calls' = Append(calls, Call("List", page_number, FALSE, NoPayload, NoResult))
    /\ Crash("HTTPError")
    /\ UNCHANGED <<args, catalog, run, dbt_tables, caller, page_number, datasets,
                   datasets_keys, warned, threads, k, filtered, i, sst_dataset, logged, prev>>

\* lines 181-182: main starts the threads in order
StartThread ==
    /\ pc = "start_threads"
    /\ IF k <= Len(threads)
       THEN /\ threads' = [threads EXCEPT ![k].st = "started"]
            /\ k' = k + 1
            /\ pc' = pc
       ELSE /\ k' = 1
            /\ pc' = "join_threads"
            /\ threads' = threads
    /\ UNCHANGED <<args, catalog, run, error, dbt_tables, caller, page_number, datasets,
                   datasets_keys, warned, filtered, i, sst_dataset, calls, logged, faults,
                   prev>>

ThreadFrame == <<args, run, pc, error, dbt_tables, caller, page_number, datasets,
                 datasets_keys, warned, k, filtered, i, sst_dataset, logged, prev>>

\* create_dataset, lines 152-165, in thread t: the catalog answers with a table_id
create_dataset(t) ==
    /\ threads[t].st = "started"
    /\ args.superset_db_id # NoneId
    /\ catalog' = ServerGetOrCreate(catalog, args.superset_db_id,
                      threads[t].dbt_table.schema_, threads[t].dbt_table.name)
    /\ calls' = Append(calls, Call("Create", t, TRUE, NoPayload, NoResult))
    /\ threads' = [threads EXCEPT ![t].st = "done"]
    /\ UNCHANGED faults
    /\ UNCHANGED ThreadFrame

\* the answer holds no table_id: the assertion of line 165 ends the thread
create_dataset_no_table_id(t) ==
    /\ threads[t].st = "started"
    /\ calls' = Append(calls, Call("Create", t, TRUE, NoPayload, NoResult))
    /\ threads' = [threads EXCEPT ![t].st = "raised", ![t].exc = "AssertionError"]
    /\ UNCHANGED <<catalog, faults>>
    /\ UNCHANGED ThreadFrame

\* the request raises HTTPError, which ends the thread
create_dataset_raises(t) ==
    /\ threads[t].st = "started"
    /\ faults < MaxFaults
    /\ faults' = faults + 1
    /\ calls' = Append(calls, Call("Create", t, FALSE, NoPayload, NoResult))
    /\ threads' = [threads EXCEPT ![t].st = "raised", ![t].exc = "HTTPError"]
    /\ UNCHANGED catalog
    /\ UNCHANGED ThreadFrame


\* line 185 left out: main does not wait
Joined_no_wait(t) == TRUE

\* thread.join() of line 185 returns once the thread has ended
Joined(t) == threads[t].st \in {"done", "raised"}

\* lines 184-186, then line 211: main joins the threads in order and lists again
JoinThread ==
    /\ pc = "join_threads"
    /\ IF k <= Len(threads)
       THEN /\ Joined(k)
            /\ k' = k + 1
            /\ UNCHANGED <<pc, caller, page_number, datasets, datasets_keys>>
       ELSE /\ pc' = "list"
            /\ caller' = "main"
            /\ page_number' = 0
            /\ datasets' = <<>>
            /\ datasets_keys' = {}
            /\ k' = k
    /\ UNCHANGED <<args, catalog, run, error, dbt_tables, warned, threads, filtered, i,
                   sst_dataset, calls, logged, faults, prev>>

\* lines 216-218, and line 230 after the last dataset
LoopNext ==
    /\ pc = "loop"
    /\ IF i <= Len(filtered)
       THEN /\ sst_dataset' = filtered[i]
            /\ pc' = IF args.superset_refresh_columns THEN "refresh" ELSE "detail"
       ELSE /\ pc' = "done"
            /\ sst_dataset' = sst_dataset
    /\ UNCHANGED <<args, catalog, run, error, dbt_tables, caller, page_number, datasets,
                   datasets_keys, warned, threads, k, filtered, i, calls, logged, faults,
                   prev>>

LoopFrame == <<args, run, error, dbt_tables, caller, page_number, datasets,
               datasets_keys, warned, threads, k, filtered, prev>>

\* lines 226-228: the HTTPError of a request of this dataset is logged and the
\* loop goes on
RequestFails(op) ==
    /\ faults < MaxFaults
    /\ faults' = faults + 1
    /\ calls' = Append(calls, Call(op, sst_dataset.id, FALSE, NoPayload, NoResult))
    /\ logged' = Append(logged, sst_dataset.id)
    /\ i' = i + 1
    /\ pc' = "loop"
    /\ UNCHANGED <<catalog, sst_dataset>>
    /\ UNCHANGED LoopFrame

\* lines 220-222: the refresh (the pause of line 222 changes nothing here)
refresh_columns_in_superset ==
    /\ pc = "refresh"
    /\ calls' = Append(calls, Call("Refresh", sst_dataset.id, TRUE, NoPayload, NoResult))
    /\ pc' = "detail"
    /\ UNCHANGED <<catalog, sst_dataset, i, logged, faults>>
    /\ UNCHANGED LoopFrame

refresh_columns_in_superset_raises == pc = "refresh" /\ RequestFails("Refresh")

\* add_superset_columns, lines 22-32
add_superset_columns ==
    /\ pc = "detail"
    /\ LET result == ServerDetail(catalog, sst_dataset.id)
       IN  /\ calls' = Append(calls, Call("GetDetail", sst_dataset.id, TRUE, NoPayload, result))
           /\ sst_dataset' = [id |-> sst_dataset.id, key |-> sst_dataset.key,
                              columns |-> result.columns,
                              description |-> result.description,
                              owners |-> result.owners]
    /\ pc' = "merge"
    /\ UNCHANGED <<catalog, i, logged, faults>>
    /\ UNCHANGED LoopFrame

add_superset_columns_raises == pc = "detail" /\ RequestFails("GetDetail")

\* line 224: merge_columns_info; what it raises is no HTTPError, so line 226
\* does not catch it
Merge ==
    /\ pc = "merge"
    /\ IF MergeRaises(sst_dataset, dbt_tables)
       THEN /\ pc' = "crashed"
            /\ error' = "AttributeError"
            /\ sst_dataset' = sst_dataset
       ELSE /\ sst_dataset' = merge_columns_info(sst_dataset, dbt_tables)
            /\ pc' = "put"
            /\ error' = error
    /\ UNCHANGED <<args, catalog, run, dbt_tables, caller, page_number, datasets,
                   datasets_keys, warned, threads, k, filtered, i, calls, logged, faults,
                   prev>>

\* put_descriptions_to_superset, lines 129-149 (the pause of line 147 changes
\* nothing here)
put_descriptions_to_superset ==
    /\ pc = "put"
    /\ IF ShouldWrite(sst_dataset)
       THEN /\ calls' = Append(calls, Call("Update", sst_dataset.id, TRUE,
                                            Payload(sst_dataset), NoResult))
            /\ catalog' = ServerUpdate(catalog, sst_dataset.id, Payload(sst_dataset))
       ELSE UNCHANGED <<calls, catalog>>
    /\ i' = i + 1
    /\ pc' = "loop"
    /\ UNCHANGED <<sst_dataset, logged, faults>>
    /\ UNCHANGED LoopFrame

put_descriptions_to_superset_raises ==
    /\ pc = "put"
    /\ ShouldWrite(sst_dataset)
    /\ faults < MaxFaults
    /\ faults' = faults + 1
    /\ calls' = Append(calls, Call("Update", sst_dataset.id, FALSE,
                                    Payload(sst_dataset), NoResult))
    /\ logged' = Append(logged, sst_dataset.id)
    /\ i' = i + 1
    /\ pc' = "loop"
    /\ UNCHANGED <<catalog, sst_dataset>>
    /\ UNCHANGED LoopFrame

\* every request of the run was answered and every creation gave an id
CleanRun ==
    /\ pc = "done"
    /\ \A j \in 1..Len(calls) : calls[j].ok
    /\ \A t \in 1..Len(threads) : threads[t].st = "done"

Updated == {calls[j].arg : j \in {n \in 1..Len(calls) : calls[n].op = "Update" /\ calls[n].ok}}

\* main is run again, with the same arguments, on the catalog as it is
NextRun ==
    /\ pc \in {"done", "crashed"}
    /\ run < MaxRuns
    /\ run' = run + 1
    /\ prev' = [clean |-> CleanRun, updated |-> Updated]
    /\ pc' = "start" /\ error' = "" /\ dbt_tables' = <<>> /\ caller' = ""
    /\ page_number' = 0 /\ datasets' = <<>> /\ datasets_keys' = {} /\ warned' = {}
    /\ threads' = <<>> /\ k' = 0 /\ filtered' = <<>> /\ i' = 0 /\ sst_dataset' = NoDataset
    /\ calls' = <<>> /\ logged' = <<>>
    /\ UNCHANGED <<args, catalog, faults>>

Next ==
    \/ CheckToken
    \/ GetTables
    \/ ListPage
    \/ ListPageFails
    \/ StartThread
    \/ \E t \in 1..Len(threads) : create_dataset(t)
    \/ \E t \in 1..Len(threads) : create_dataset_no_table_id(t)
    \/ \E t \in 1..Len(threads) : create_dataset_raises(t)
    \/ JoinThread
    \/ LoopNext
    \/ refresh_columns_in_superset
    \/ refresh_columns_in_superset_raises
    \/ add_superset_columns
    \/ add_superset_columns_raises
    \/ Merge
    \/ put_descriptions_to_superset
    \/ put_descriptions_to_superset_raises
    \/ NextRun

Spec == Init /\ [][Next]_vars

(***************************************************************************)
(* What the claims speak of.                                               *)
(***************************************************************************)
CallsOf(op) == {j \in 1..Len(calls) : calls[j].op = op}

\* the step of this iteration that merged has acted
Merged == "columns_new" \in DOMAIN sst_dataset

\* the columns as the set of their (id, description) pairs
PairSet(columns) == {<<columns[j].id, columns[j].description>> : j \in 1..Len(columns)}

\* the candidate differs from what the detail fetch returned
Differs(dataset) ==
    \/ dataset.description_new # dataset.description
    \/ PairSet(dataset.columns_new) # PairSet(dataset.columns)

\* the manifest entries the index is to hold: models, of the database asked for
Selected ==
    {e \in ToSet(args.manifest.nodes) \cup ToSet(args.manifest.sources) :
        /\ e.key[1] = "model"
        /\ (args.dbt_db_name = NoneStr \/ e.val.database = args.dbt_db_name)}

ShortKey(e) == e.val.schema_ \o "." \o e.val.name

\* the manifest tables of a key
Matches(key) == {e \in Selected : ShortKey(e) = key}

\* main is in the loop of line 216, at dataset i
InCycle == pc \in {"refresh", "detail", "merge", "put"}
           \/ (pc = "crashed" /\ sst_dataset # NoDataset)

C2_DiffGate ==
    [][pc = "put" =>
        /\ Differs(sst_dataset) <=>
              /\ Len(calls') = Len(calls) + 1
              /\ calls'[Len(calls')].op = "Update"
              /\ calls'[Len(calls')].arg = sst_dataset.id
        /\ ~Differs(sst_dataset) => (calls' = calls /\ catalog' = catalog)]_vars

\* one dataset was left alone, the next one was written
C2_Witness ==
    \E j \in 1..Len(calls) :
        /\ j + 2 <= Len(calls)
        /\ calls[j].op = "GetDetail" /\ calls[j + 1].op = "GetDetail"
        /\ calls[j + 2].op = "Update"

\* C3: Phase 2 fault isolation. A failure within one dataset's cycle (refresh,
\* detail fetch, merge, gate, write) never aborts the run.
C3_FaultIsolation ==
    InCycle => pc # "crashed"

\* C4: Column precedence, computed columns. The candidate keeps the catalog's
\* description of every column whose expression is non-empty, whatever the
\* manifest says, and no Update payload carries another description for it.
C4_ComputedKept ==
    /\ Merged =>
          \A j \in 1..Len(sst_dataset.columns) :
              sst_dataset.columns[j].expression \notin {NoneStr, ""} =>
                  /\ sst_dataset.columns_new[j].id = sst_dataset.columns[j].id
                  /\ sst_dataset.columns_new[j].description = sst_dataset.columns[j].description
    /\ \A n \in CallsOf("Update") :
          \A j \in 1..Len(calls[n].payload.columns) :
              \A d \in 1..Len(catalog) : \A c \in 1..Len(catalog[d].columns) :
                  (/\ catalog[d].id = calls[n].arg
                   /\ catalog[d].columns[c].id = calls[n].payload.columns[j].id
                   /\ catalog[d].columns[c].expression \notin {NoneStr, ""})
                  => calls[n].payload.columns[j].description = catalog[d].columns[c].description

\* a computed column that the manifest names and describes otherwise was merged
C4_Witness ==
    /\ pc = "put"
    /\ \E j \in 1..Len(sst_dataset.columns) : \E e \in Matches(sst_dataset.key) :
          /\ sst_dataset.columns[j].expression = "SUM(x)"
          /\ sst_dataset.columns[j].column_name \in DOMAIN e.val.columns
          /\ e.val.columns[sst_dataset.columns[j].column_name].description # NoneText
          /\ convert_markdown_to_plain_text(
                 e.val.columns[sst_dataset.columns[j].column_name].description)
                 # sst_dataset.columns[j].description

\* C5: Column precedence, simple columns. Once a dataset's detail is fetched,
\* merge gives every column with empty or null expression that the manifest
\* table names the translated manifest description, an absent one included.
C5_SimpleOverridden ==
    (InCycle /\ pc \notin {"refresh", "detail", "merge"}) =>
        /\ Merged
        /\ \A j \in 1..Len(sst_dataset.columns) : \A e \in Matches(sst_dataset.key) :
              (/\ sst_dataset.columns[j].expression \in {NoneStr, ""}
               /\ sst_dataset.columns[j].column_name \in DOMAIN e.val.columns)
              => sst_dataset.columns_new[j].description =
                    convert_markdown_to_plain_text(
                        e.val.columns[sst_dataset.columns[j].column_name].description)

\* C6: Dataset description precedence. The candidate description is the
\* catalog's when no manifest table matches the key or the matched table has
\* no description, and the translated manifest description otherwise.
C6_DescriptionPrecedence ==
    Merged =>
        /\ \A e \in Matches(sst_dataset.key) :
              sst_dataset.description_new =
                  IF e.val.description = NoneText THEN sst_dataset.description
                  ELSE convert_markdown_to_plain_text(e.val.description)
        /\ merge_columns_info([sst_dataset EXCEPT !.key = "none.such"], dbt_tables).description_new
              = sst_dataset.description

\* the manifest description, which its translation changes, replaced another
C6_Witness ==
    /\ pc = "put"
    /\ \E e \in Matches(sst_dataset.key) :
          /\ e.val.description # NoneText
          /\ sst_dataset.description_new # e.val.description
          /\ sst_dataset.description_new # sst_dataset.description

\* the detail fetch an Update of position n rests on
DetailBefore(n) ==
    CHOOSE j \in 1..n : /\ calls[j].op = "GetDetail" /\ calls[j].arg = calls[n].arg
                        /\ \A m \in (j + 1)..(n - 1) : calls[m].op # "GetDetail"

\* C7: Owners. Every Update payload carries the owner ids the detail fetch of
\* the same dataset returned, and an Update is only issued for a dataset whose
\* description or column descriptions change, whatever its owners.
C7_OwnersPreserved ==
    \A n \in CallsOf("Update") :
        /\ \E j \in 1..(n - 1) : calls[j].op = "GetDetail" /\ calls[j].arg = calls[n].arg
        /\ LET detail == calls[DetailBefore(n)].result
           IN  /\ Len(calls[n].payload.owners) = Len(detail.owners)
               /\ \A o \in 1..Len(detail.owners) :
                     calls[n].payload.owners[o] = detail.owners[o].id
               /\ \/ calls[n].payload.description # detail.description
                  \/ PairSet(calls[n].payload.columns) # PairSet(detail.columns)

\* a dataset with two owners was left alone, the next was written with its owner
C7_Witness ==
    \E j \in CallsOf("GetDetail") :
        /\ Len(calls[j].result.owners) = 2
        /\ j + 2 <= Len(calls)
        /\ calls[j + 1].op = "GetDetail"
        /\ calls[j + 2].op = "Update" /\ calls[j + 2].payload.owners = <<7>>

\* two entries of a set of manifest entries share schema and name
SharedKey(entries) == \E e1, e2 \in entries : e1 # e2 /\ ShortKey(e1) = ShortKey(e2)

Models == {e \in ToSet(args.manifest.nodes) \cup ToSet(args.manifest.sources) :
              e.key[1] = "model"}

\* the catalog datasets the index is to hold, as positions of the catalog
CatalogSelected ==
    {d \in 1..Len(catalog) :
        /\ catalog[d].kind = "physical"
        /\ (args.superset_db_id = NoneId \/ catalog[d].database.id = args.superset_db_id)}

SharedCatalogKey ==
    \E d1, d2 \in CatalogSelected :
        /\ d1 # d2
        /\ catalog[d1].schema = catalog[d2].schema
        /\ catalog[d1].table_name = catalog[d2].table_name

\* get_tables_from_dbt has been called, and has raised
ManifestBuilt == pc \notin {"start", "tables"} /\ error # "MissingStartupCredential"
ManifestRaised == ManifestBuilt /\ pc = "crashed" /\ dbt_tables = <<>>

\* get_datasets_from_superset has returned, or has raised
ListReturned ==
    \/ pc \in {"start_threads", "join_threads", "loop", "refresh", "detail", "merge", "put", "done"}
    \/ (pc = "list" /\ caller = "main" /\ args.create_dataset_if_not_exists)
    \/ (pc = "crashed" /\ sst_dataset # NoDataset)
ListRaised == pc = "crashed" /\ dbt_tables # <<>> /\ sst_dataset = NoDataset
ListRequestFailed == ListRaised /\ ~calls[Len(calls)].ok

\* what both readings of C8 share: without a filter two selected entries of one
\* schema and name are a DuplicateKey, and a DuplicateKey is never raised but
\* for two selected entries (an unanswered listing request aside)
C8_Detection ==
    /\ (ManifestBuilt /\ args.dbt_db_name = NoneStr /\ SharedKey(Models))
          => (ManifestRaised /\ error = "DuplicateKey")
    /\ (ManifestRaised /\ error = "DuplicateKey") => SharedKey(Selected)
    /\ ((ListReturned \/ ListRaised) /\ SharedCatalogKey)
          => (ListRaised /\ (error = "DuplicateKey" \/ ListRequestFailed))
    /\ (ListRaised /\ ~ListRequestFailed) => (error = "DuplicateKey" /\ SharedCatalogKey)

\* C8 as stated: Duplicate detection; and with a database filter that leaves at
\* most one entry of each schema and name, the index is built.
C8_Original ==
    /\ C8_Detection
    /\ (ManifestBuilt /\ SharedKey(Models) /\ args.dbt_db_name # NoneStr /\ ~SharedKey(Selected))
          => ~ManifestRaised

\* C8 as amended: with a database filter that leaves at most one entry of each
\* schema and name, and at least one entry, the manifest index is built; one
\* that leaves none fails with EmptyManifest.
C8_DuplicateDetection ==
    /\ C8_Detection
    /\ (ManifestBuilt /\ ~SharedKey(Selected))
          => IF Selected = {} THEN ManifestRaised /\ error = "EmptyManifest"
             ELSE ~ManifestRaised /\ DictKeys(dbt_tables) = {ShortKey(e) : e \in Selected}

\* a manifest with the same table in two databases was indexed under a filter
C8_Witness ==
    /\ SharedKey(Models) /\ args.dbt_db_name = "db1"
    /\ pc = "done"
    /\ DictKeys(dbt_tables) = {"sales.orders", "sales.items"}

\* the pages of the listing that hold datasets
RECURSIVE NonEmptyPages(_, _)
NonEmptyPages(cat, p) == IF ServerPage(cat, p) = <<>> THEN p ELSE NonEmptyPages(cat, p + 1)

\* the requests of the listing under way or just ended: from the last request
\* of page 0 on
LastListing ==
    IF \E j \in CallsOf("List") : calls[j].arg = 0
    THEN SubSeq(calls, CHOOSE j \in CallsOf("List") :
                           /\ calls[j].arg = 0
                           /\ \A m \in CallsOf("List") : calls[m].arg = 0 => m <= j,
                Len(calls))
    ELSE <<>>

\* get_datasets_from_superset has just returned
JustListed ==
    \/ (pc = "start_threads" /\ k = 1 /\ \A t \in 1..Len(threads) : threads[t].st = "new")
    \/ (pc = "loop" /\ i = 1 /\ sst_dataset = NoDataset)

PagesInOrder(listing) ==
    \A j \in 1..Len(listing) : listing[j].op = "List" /\ listing[j].arg = j - 1

\* C9 as stated: Pagination termination. A listing of n pages with datasets and
\* then an empty page costs exactly n+1 fetches, every one of them answered,
\* however get_datasets_from_superset ends.
C9_Original ==
    ((JustListed \/ ListRaised) /\ ~ListRequestFailed)
        => Len(LastListing) = NonEmptyPages(catalog, 0) + 1

\* C9 as amended: the pages are asked for in order from 0; the listing returns
\* at the first empty page, after n+1 fetches; it ends before that only by
\* raising, for a duplicate key on a page with datasets or a failed request.
C9_Pagination ==
    /\ ((pc = "list" /\ page_number > 0) \/ JustListed \/ ListRaised)
          => PagesInOrder(LastListing)
    /\ JustListed => Len(LastListing) = NonEmptyPages(catalog, 0) + 1
    /\ ListRaised =>
          /\ Len(LastListing) <= NonEmptyPages(catalog, 0) + 1
          /\ ~ListRequestFailed =>
                (error = "DuplicateKey" /\ Len(LastListing) <= NonEmptyPages(catalog, 0))

\* a listing of two pages with datasets has returned
C9_Witness ==
    /\ JustListed
    /\ Len(LastListing) = 3
    /\ NonEmptyPages(catalog, 0) = 2

\* main is past the joins of line 185
PastJoin ==
    /\ args.create_dataset_if_not_exists
    /\ \/ pc \in {"loop", "refresh", "detail", "merge", "put", "done"}
       \/ (pc \in {"list", "crashed"} /\ caller = "main")

\* main is past the joins only with every thread ended, and no thread's
\* failure is what ended the run
C10_Joined ==
    /\ PastJoin => \A t \in 1..Len(threads) : threads[t].st \in {"done", "raised"}
    /\ (\E t \in 1..Len(threads) : threads[t].st = "raised" /\ pc = "crashed")
          => (caller = "main" /\ error \in {"HTTPError", "DuplicateKey", "AttributeError"})

\* a thread that fails changes no other thread and not main
C10_SiblingsUntouched ==
    \A t \in 1..Len(threads) :
        (threads[t].st = "started" /\ Len(threads') = Len(threads) /\ threads'[t].st = "raised")
            => /\ \A u \in 1..Len(threads) : u # t => threads'[u] = threads[u]
               /\ pc' = pc /\ error' = error

\* C10: Phase 1 join and sibling isolation. Under every interleaving, main
\* lists the catalog again and starts Phase 2 only when every creation thread
\* has ended, with an id or without; a creation that fails ends its own thread
\* only: no other thread changes with it, and the run does not end with it.
C10_JoinAndIsolation ==
    []C10_Joined /\ [][C10_SiblingsUntouched]_vars

\* the run is done though one creation failed, and its sibling created a dataset
C10_Witness ==
    /\ pc = "done"
    /\ Len(threads) = 2
    /\ \E t, u \in 1..Len(threads) : threads[t].st = "raised" /\ threads[u].st = "done"

\* the orders a list can be put in
Orderings(lst) ==
    {[j \in 1..Len(lst) |-> lst[f[j]]] :
        f \in {g \in [1..Len(lst) -> 1..Len(lst)] :
                  \A a, b \in 1..Len(lst) : a # b => g[a] # g[b]}}

\* C11: Diff order-independence. check_columns_equal answers the same for the
\* current column list in any order, so a dataset whose detail fetch returns
\* the same columns in another order gets an Update exactly when it got one.
C11_OrderIndependent ==
    Merged =>
        \A cols \in Orderings(sst_dataset.columns) :
            LET reordered == [id |-> sst_dataset.id, key |-> sst_dataset.key,
                              columns |-> cols,
                              description |-> sst_dataset.description,
                              owners |-> sst_dataset.owners]
            IN  /\ check_columns_equal(sst_dataset.columns_new, ColumnsOld(reordered))
                      = check_columns_equal(sst_dataset.columns_new, ColumnsOld(sst_dataset))
                /\ ShouldWrite(merge_columns_info(reordered, dbt_tables))
                      = ShouldWrite(sst_dataset)

\* two columns listed against the order of their ids were found up to date
C11_Witness ==
    /\ pc = "put"
    /\ Len(sst_dataset.columns) = 2
    /\ sst_dataset.columns[1].id > sst_dataset.columns[2].id
    /\ ~ShouldWrite(sst_dataset)

\* the run ended on one of the three errors raised before line 207: the token
\* assertion of lines 194-197, or DuplicateKey or EmptyManifest out of
\* get_tables_from_dbt (the manifest index was never bound)
FatalBeforeCatalog ==
    \/ error = "MissingStartupCredential"
    \/ error \in {"DuplicateKey", "EmptyManifest"} /\ dbt_tables = <<>>

\* C12: Fatal errors precede network activity. A run that fails on the missing
\* token, or on DuplicateKey or EmptyManifest from get_tables_from_dbt, has
\* halted, has issued no catalog request (List, Create, RefreshColumns,
\* GetDetail, Update), and takes no further step.
C12_FatalBeforeRequests ==
    /\ [](FatalBeforeCatalog => pc = "crashed" /\ calls = <<>>)
    /\ [][FatalBeforeCatalog => run' = run + 1 /\ calls' = <<>>]_vars

\* two models of one schema.name ended the run before the first request
C12_Witness ==
    /\ pc = "crashed"
    /\ error = "DuplicateKey"
    /\ dbt_tables = <<>>
    /\ calls = <<>>
    /\ catalog # <<>>

\* the listing of line 211 has returned its index
FinalListingReturned ==
    /\ caller = "main"
    /\ \/ pc \in {"loop", "refresh", "detail", "merge", "put", "done"}
       \/ pc = "crashed" /\ sst_dataset # NoDataset

\* the requests of phase 2 issued so far
CycleCalls == CallsOf("Refresh") \cup CallsOf("GetDetail") \cup CallsOf("Update")

\* C13 as stated: once a listing of the run has come back empty with the
\* warning, the run issues no RefreshColumns, GetDetail or Update.
C13_Original == warned # {} => CycleCalls = {}

\* C13: Empty catalog is non-fatal. When the listing of line 211 has no entry
\* after filtering, it has returned an empty index with the warning and no
\* error, no RefreshColumns, GetDetail or Update is issued, and the run goes
\* straight to its normal end.
C13_EmptyCatalog ==
    /\ [](FinalListingReturned /\ datasets = <<>> =>
            /\ "main" \in warned
            /\ error = "" /\ pc \in {"loop", "done"}
            /\ filtered = <<>>
            /\ CycleCalls = {})
    /\ [][FinalListingReturned /\ datasets = <<>> /\ pc = "loop" => pc' = "done"]_vars

\* a catalog that holds datasets, none of them kept by the filter, and the run
\* is over
C13_Witness ==
    /\ pc = "done"
    /\ "main" \in warned
    /\ catalog # <<>>
    /\ CycleCalls = {}

\* the content of the code regions of a markdown text: what stands between a
\* pair of backticks, and the line of an indented block
RECURSIVE InlineCode(_, _)
InlineCode(md, open) ==
    IF md = <<>> THEN {}
    ELSE IF Head(md) = Backtick THEN InlineCode(Tail(md), ~open)
    ELSE (IF open THEN {Head(md)} ELSE {}) \cup InlineCode(Tail(md), open)

RECURSIVE CodeContent(_)
CodeContent(md) ==
    IF md = <<>> THEN {}
    ELSE IF Head(md) = "    "
         THEN ToSet(UpToNewline(Tail(md))) \cup CodeContent(AfterNewline(md))
         ELSE InlineCode(md, FALSE)

\* C14: DescriptionTranslator strips code regions entirely. No content of a
\* code block or of an inline code span of a manifest description appears in
\* the plain text that convert_markdown_to_plain_text made of it, neither in
\* the candidate description of the dataset nor in that of an overridden column.
C14_CodeStripped ==
    Merged /\ InDict(sst_dataset.key, dbt_tables) =>
        /\ DbtDescription(sst_dataset, dbt_tables) # NoneText =>
              CodeContent(DbtDescription(sst_dataset, dbt_tables))
                  \cap ToSet(sst_dataset.description_new) = {}
        /\ \A j \in 1..Len(sst_dataset.columns) :
              Overridden(sst_dataset.columns[j], DbtColumns(sst_dataset, dbt_tables)) =>
                  CodeContent(DbtColumns(sst_dataset, dbt_tables)
                                  [sst_dataset.columns[j].column_name].description)
                      \cap ToSet(sst_dataset.columns_new[j].description) = {}

\* the threads made for the table of manifest key key
ThreadsOf(thr, key) ==
    {t \in 1..Len(thr) : thr[t].dbt_table.schema_ \o "." \o thr[t].dbt_table.name = key}

\* at the end of the listing of line 169 the tables to create are those of
\* the manifest index whose key the index just listed lacks, each once
C15_MissingOnly ==
    pc = "list" /\ pc' = "start_threads" =>
        /\ \A key \in DictKeys(dbt_tables) :
              Cardinality(ThreadsOf(threads', key))
                  = IF key \in {datasets[j].key : j \in 1..Len(datasets)} THEN 0 ELSE 1
        /\ \A t \in 1..Len(threads') :
              InDict(threads'[t].dbt_table.schema_ \o "." \o threads'[t].dbt_table.name, dbt_tables)

\* a Create call is the call of one of those tables, no table has two, and
\* past the joins every one of them has had its call
C15_OneCreateEach ==
    /\ ~args.create_dataset_if_not_exists => CallsOf("Create") = {} /\ threads = <<>>
    /\ \A c \in CallsOf("Create") : calls[c].arg \in 1..Len(threads)
    /\ \A c, d \in CallsOf("Create") : calls[c].arg = calls[d].arg => c = d
    /\ PastJoin => \A t \in 1..Len(threads) : \E c \in CallsOf("Create") : calls[c].arg = t

\* C15: Phase 1 creates exactly the missing datasets. With createIfMissing,
\* exactly one Create call is issued for each manifest table whose key the
\* index listed at the start of the phase lacks and none for a table whose key
\* it holds; without createIfMissing no Create call is ever issued.
C15_CreatesMissing ==
    []C15_OneCreateEach /\ [][C15_MissingOnly]_vars

\* of two manifest tables one was listed and the other one was created
C15_Witness ==
    /\ pc = "done"
    /\ Len(dbt_tables) = 2
    /\ Len(threads) = 1
    /\ Cardinality(CallsOf("Create")) = 1
    /\ threads[1].st = "done"

\* the catalog datasets of id id that Phase 2 may work on: physical, of the
\* database asked for when one is, and of a key of the manifest index
InScope(id) ==
    {d \in CatalogSelected :
        /\ catalog[d].id = id
        /\ (catalog[d].schema \o "." \o catalog[d].table_name) \in DictKeys(dbt_tables)}

\* C16: Phase 2 scope. Every RefreshColumns, GetDetail and Update of a run is
\* for the id of a dataset that the catalog lists as physical, in the database
\* asked for when a database filter is given, and with a key of the manifest
\* index; a virtual, other-database or unmatched dataset is never refreshed,
\* fetched in detail or written.
C16_Scope ==
    /\ \A c \in CycleCalls : InScope(calls[c].arg) # {}
    /\ InCycle => InScope(sst_dataset.id) # {}
    /\ \A j \in 1..Len(filtered) : InScope(filtered[j].id) # {}

\* a catalog with a view, a dataset of another database and an unmatched one,
\* and the run ended having fetched a dataset in detail
C16_Witness ==
    /\ pc = "done"
    /\ args.superset_db_id # NoneId
    /\ CallsOf("GetDetail") # {}
    /\ \E d \in 1..Len(catalog) : catalog[d].kind = "virtual"
    /\ \E d \in 1..Len(catalog) : catalog[d].database.id # args.superset_db_id
    /\ \E d \in CatalogSelected :
          (catalog[d].schema \o "." \o catalog[d].table_name) \notin DictKeys(dbt_tables)

\* the requests of Phase 2 of this run, in the order issued
CycleSeq == SelectSeq(calls, LAMBDA c : c.op \in {"Refresh", "GetDetail", "Update"})

\* where the listing of line 211 has the dataset of this id among the matched
PlaceOf(id) == CHOOSE j \in 1..Len(filtered) : filtered[j].id = id

StepOf(op) == CASE op = "Refresh" -> 1 [] op = "GetDetail" -> 2 [] op = "Update" -> 3

\* the gate of lines 143-144 on what a GetDetail returned
GatePositive(call) ==
    LET key == (CHOOSE j \in 1..Len(filtered) : filtered[j].id = call.arg)
        fetched == [id |-> call.arg, key |-> filtered[key].key,
                    columns |-> call.result.columns,
                    description |-> call.result.description,
                    owners |-> call.result.owners]
    IN  /\ ~MergeRaises(fetched, dbt_tables)
        /\ ShouldWrite(merge_columns_info(fetched, dbt_tables))

\* C17: Phase 2 ordering. The matched datasets are worked on one after the
\* other in the order of the catalog listing; for one dataset the requests are
\* RefreshColumns (only when configured), then GetDetail, then Update (only
\* when the gate is positive), each after the one before was answered; no
\* request for a later dataset is issued before the cycle of the current one
\* has finished or failed.
C17_Ordering ==
    /\ \A j, n \in 1..Len(filtered) :
          j < n => Position(catalog, filtered[j].id) < Position(catalog, filtered[n].id)
    /\ \A a, b \in 1..Len(CycleSeq) :
          a < b =>
             \/ PlaceOf(CycleSeq[a].arg) < PlaceOf(CycleSeq[b].arg)
             \/ /\ CycleSeq[a].arg = CycleSeq[b].arg
                /\ StepOf(CycleSeq[a].op) < StepOf(CycleSeq[b].op)
    /\ \A b \in 1..Len(CycleSeq) :
          LET follows(op) == /\ b > 1
                             /\ CycleSeq[b - 1].op = op
                             /\ CycleSeq[b - 1].arg = CycleSeq[b].arg
                             /\ CycleSeq[b - 1].ok
          IN  /\ CycleSeq[b].op = "Refresh" => args.superset_refresh_columns
              /\ CycleSeq[b].op = "GetDetail" =>
                    (args.superset_refresh_columns <=> follows("Refresh"))
              /\ CycleSeq[b].op = "Update" =>
                    follows("GetDetail") /\ GatePositive(CycleSeq[b - 1])
    /\ InCycle =>
          /\ sst_dataset.id = filtered[i].id
          /\ \A b \in 1..Len(CycleSeq) : PlaceOf(CycleSeq[b].arg) <= i

\* with the refresh configured, two datasets were worked on in turn and the
\* run wrote to both
C17_Witness ==
    /\ pc = "done"
    /\ args.superset_refresh_columns
    /\ Len(filtered) = 2
    /\ Len(CycleSeq) = 6
    /\ CycleSeq[3].op = "Update" /\ CycleSeq[4].op = "Refresh"

\* the manifest entries in the order get_tables_from_dbt meets them
ManifestEntries == args.manifest.nodes \o args.manifest.sources

\* C18: ManifestIndex selection. When get_tables_from_dbt returns, the index
\* holds exactly the entries of nodes and sources that are models and, with a
\* database filter, of that database, each under its schema.name and in the
\* order of the manifest; an entry of another kind is left out even when a
\* model has its schema.name; and get_tables_from_dbt fails with EmptyManifest
\* exactly when no entry is selected.
C18_Selection ==
    ManifestBuilt =>
        /\ (ManifestRaised /\ error = "EmptyManifest") <=> Selected = {}
        /\ ManifestRaised => error \in {"EmptyManifest", "DuplicateKey"}
        /\ ~ManifestRaised =>
              /\ dbt_tables =
                    LET kept == SelectSeq(ManifestEntries, LAMBDA e : e \in Selected)
                    IN  [j \in 1..Len(kept) |-> [key |-> ShortKey(kept[j]), val |-> kept[j].val]]
              /\ Len(dbt_tables) = Cardinality(Selected)
              /\ \A j \in 1..Len(dbt_tables) :
                    \E e \in Models : e.val = dbt_tables[j].val

\* a seed and a source of the schema.name of a model were left out of the index
C18_Witness ==
    /\ pc = "done"
    /\ \E j \in 1..Len(args.manifest.nodes) : args.manifest.nodes[j] = OrdersSeed
    /\ args.manifest.sources = <<OrdersSource>>
    /\ args.dbt_db_name = "db1"
    /\ \E j \in 1..Len(args.manifest.nodes) : args.manifest.nodes[j] = OrdersNodeDb2
    /\ Len(dbt_tables) = 2
    /\ Lookup(dbt_tables, "sales.orders").description = <<"Orders">>

\* columns_new against the columns it was made of: as many, in the same order,
\* each with the id and the name of its column and a description, nothing else
SameIdentity(columns_new, columns) ==
    /\ Len(columns_new) = Len(columns)
    /\ \A j \in 1..Len(columns) :
          /\ DOMAIN columns_new[j] = {"column_name", "id", "description"}
          /\ columns_new[j].id = columns[j].id
          /\ columns_new[j].column_name = columns[j].column_name

\* C19: Merge preserves column identity. The candidate column list has one
\* entry for each fetched column, in the same order, with id and column_name
\* unchanged and nothing but the description set; a column that only the
\* manifest has is not added, none is dropped or doubled; and the columns of
\* an Update are those of the detail fetched just before it.
C19_ColumnIdentity ==
    /\ Merged => SameIdentity(sst_dataset.columns_new, sst_dataset.columns)
    /\ \A c \in CallsOf("Update") :
          /\ c > 1 /\ calls[c - 1].op = "GetDetail" /\ calls[c - 1].arg = calls[c].arg
          /\ SameIdentity(calls[c].payload.columns, calls[c - 1].result.columns)

\* a dataset of two columns, listed against the order of their ids, was merged
\* with a manifest table that has a column the catalog lacks, and written
C19_Witness ==
    /\ pc = "loop"
    /\ Merged
    /\ Len(sst_dataset.columns) = 2
    /\ sst_dataset.columns[1].id > sst_dataset.columns[2].id
    /\ \E name \in DOMAIN DbtColumns(sst_dataset, dbt_tables) :
          \A j \in 1..Len(sst_dataset.columns) : sst_dataset.columns[j].column_name # name
    /\ sst_dataset.columns_new[1].description # sst_dataset.columns[1].description
    /\ calls[Len(calls)].op = "Update" /\ calls[Len(calls)].arg = sst_dataset.id

\* the dataset as add_superset_columns leaves it after the GetDetail call
Fetched(call) ==
    [id |-> call.arg, key |-> filtered[PlaceOf(call.arg)].key,
     columns |-> call.result.columns,
     description |-> call.result.description,
     owners |-> call.result.owners]

\* the listing reports a dataset it keeps more than once
Relisted ==
    \E d1, d2 \in CatalogSelected : d1 # d2 /\ catalog[d1].id = catalog[d2].id

\* C20: At most one write per dataset per run. No dataset id has two Update
\* calls in a run; every Update comes right after a GetDetail of the same
\* dataset, answered in the same run, whose result gave the payload its column
\* ids, its owners and every description the manifest does not override; and
\* a run whose listing reports a dataset twice is ended by the uniqueness
\* check before any dataset is fetched or written.
C20_OneWrite ==
    /\ \A c, d \in CallsOf("Update") : calls[c].arg = calls[d].arg => c = d
    /\ \A c \in CallsOf("Update") :
          /\ c > 1
          /\ calls[c - 1].op = "GetDetail" /\ calls[c - 1].ok
          /\ calls[c - 1].arg = calls[c].arg
          /\ LET got == Fetched(calls[c - 1])
                 sent == calls[c].payload
             IN  /\ Len(sent.columns) = Len(got.columns)
                 /\ \A j \in 1..Len(got.columns) :
                       /\ sent.columns[j].id = got.columns[j].id
                       /\ ~Overridden(got.columns[j], DbtColumns(got, dbt_tables))
                             => sent.columns[j].description = got.columns[j].description
                 /\ sent.owners = [j \in 1..Len(got.owners) |-> got.owners[j].id]
                 /\ DbtDescription(got, dbt_tables) = NoneText
                       => sent.description = got.description
    /\ Relisted =>
          /\ CycleCalls = {} /\ filtered = <<>>
          /\ pc \in {"start", "tables", "list", "crashed"}
          /\ (pc = "crashed" /\ dbt_tables # <<>> /\ \A j \in 1..Len(calls) : calls[j].ok)
                => error = "DuplicateKey"

\* two datasets were written, each once and each after its detail was fetched;
\* one of them has an owner and a column the manifest does not override
C20_Witness ==
    /\ pc = "done"
    /\ Cardinality(CallsOf("Update")) = 2
    /\ \E c \in CallsOf("Update") :
          /\ calls[c].payload.owners # <<>>
          /\ \E j \in 1..Len(calls[c - 1].result.columns) :
                ~Overridden(calls[c - 1].result.columns[j],
                            DbtColumns(Fetched(calls[c - 1]), dbt_tables))

====
